---- MODULE Spec2Model ----
(***************************************************************************)
(* SplitPDFTool.py: batch cropping and splitting of scanned PDF pages.     *)
(*                                                                         *)
(* A directory is a set of files.  A PDF is a record holding its directory *)
(* path, its stem (a tuple of characters, so that substring tests are      *)
(* computed) and its page count.  A PNG is a record holding the digits of  *)
(* its page number, the suffix the pipeline appended to its stem, the      *)
(* geometry of its image and the caption drawn on it.                      *)
(***************************************************************************)
EXTENDS Integers, Sequences, FiniteSets, TLC

(* ------------------------------ bounds -------------------------------- *)
\* most pages a source PDF (or a stale temp directory) holds
MaxPages == 2
\* size of a rasterized page in the batch model, in pixels
PageWidth == 9
PageHeight == 7
\* largest small image side and margin drawn for the geometry model
MaxSide == 4
MaxMargin == 1

(* ------------------------- program constants -------------------------- *)
Debug_Mode == FALSE
Pdf2Image_Default_Dpi == 300
ReferenceDpi == 300

Margins(left, top, right, bottom) ==
    [left |-> left, top |-> top, right |-> right, bottom |-> bottom]

\* default value of the cropMargins parameter of ProcessPDFFiles
DefaultCropMargins == Margins(0, 0, 0, 0)

(* ------------------------------ images -------------------------------- *)
\* An image is its size plus the offset of its top-left pixel in the raster
\* page it was cut from.
NewImage(w, h) == [w |-> w, h |-> h, ox |-> 0, oy |-> 0]

\* PIL Image.crop(box): the region [box[1], box[3]) x [box[2], box[4]).
ImgCrop(img, box) ==
    [w |-> box[3] - box[1], h |-> box[4] - box[2],
     ox |-> img.ox + box[1], oy |-> img.oy + box[2]]

\* An image with no pixels (a box with right <= left or bottom <= top)
\* cannot be cropped and written as PNG: the crop or the save raises.
Savable(img) == img.w > 0 /\ img.h > 0

(* ----------------------------- file names ----------------------------- *)
\* f"{n:02d}": the decimal digits of n, zero-padded to two places.
RECURSIVE Digits(_)
Digits(n) == IF n < 10 THEN <<n>> ELSE Append(Digits(n \div 10), n % 10)

Format02d(n) == IF n < 10 THEN <<0, n>> ELSE Digits(n)

\* int(s) of a digit string
RECURSIVE ParseInt(_)
ParseInt(ds) ==
    IF Len(ds) = 0 THEN 0
    ELSE 10 * ParseInt(SubSeq(ds, 1, Len(ds) - 1)) + ds[Len(ds)]

\* "pattern in text" for tuples of characters; also pattern.search(text) for
\* the patterns modelled here, which are literal strings
Contains(pattern, text) ==
    \E i \in 0..(Len(text) - Len(pattern)) :
        SubSeq(text, i + 1, i + Len(pattern)) = pattern

\* what the pipeline appended to the stem of a raster page, piece by piece:
\* 01.png, 01_cropped.png, 01_cropped_A4_01.png, 01_cropped_A4_02.png
SufRaw == <<>>
SufCropped == <<"_cropped">>
SufLeft == <<"_cropped", "_A4_01">>
SufRight == <<"_cropped", "_A4_02">>

Png(num, suf, img, cap) == [num |-> num, suf |-> suf, img |-> img, cap |-> cap]

\* writing a file replaces the file of the same name
Save(dir, f) == {g \in dir : ~(g.num = f.num /\ g.suf = f.suf)} \cup {f}

(* ---------------------------- CropImageFile --------------------------- *)
dpiRatio == ReferenceDpi \div Pdf2Image_Default_Dpi

\* the box with the left margin taken off both sides
CropBoxLeftOnly(width, height, leftMargin, topMargin, rightMargin, bottomMargin) ==
    << leftMargin \div dpiRatio,
       topMargin \div dpiRatio,
       width - leftMargin \div dpiRatio,
       height - bottomMargin \div dpiRatio >>

CropBox(width, height, leftMargin, topMargin, rightMargin, bottomMargin) ==
    << leftMargin \div dpiRatio,
       topMargin \div dpiRatio,
       width - rightMargin \div dpiRatio,
       height - bottomMargin \div dpiRatio >>

\* the split with the two halves saved under each other's name
SplitSwapped(dir, cropped) ==
    LET width == cropped.img.w
        height == cropped.img.h
        half_width == width \div 2
        leftImage == ImgCrop(cropped.img, <<0, 0, half_width, height>>)
        rightImage == ImgCrop(cropped.img, <<half_width, 0, width, height>>)
    IN  Save(Save(dir, Png(cropped.num, Append(cropped.suf, "_A4_01"), rightImage, <<>>)),
             Png(cropped.num, Append(cropped.suf, "_A4_02"), leftImage, <<>>))

\* SplitCroppedIntoA4Files: the directory after both halves are saved
SplitCroppedIntoA4Files(dir, cropped) ==
    LET width == cropped.img.w
        height == cropped.img.h
        half_width == width \div 2
        leftImage == ImgCrop(cropped.img, <<0, 0, half_width, height>>)
        rightImage == ImgCrop(cropped.img, <<half_width, 0, width, height>>)
    IN  Save(Save(dir, Png(cropped.num, Append(cropped.suf, "_A4_01"), leftImage, <<>>)),
             Png(cropped.num, Append(cropped.suf, "_A4_02"), rightImage, <<>>))

\* the left half, saved first (line 91), has pixels
SplitOk(cropped) == cropped.img.w \div 2 > 0

\* the file CropImageFile writes as <stem>_cropped.png
Cropped(imageFile, leftMargin, topMargin, rightMargin, bottomMargin) ==
    Png(imageFile.num, Append(imageFile.suf, "_cropped"),
        ImgCrop(imageFile.img,
                CropBox(imageFile.img.w, imageFile.img.h,
                        leftMargin, topMargin, rightMargin, bottomMargin)),
        <<>>)

\* CropImageFile returns normally iff every image it saves has pixels
CropOk(imageFile, leftMargin, topMargin, rightMargin, bottomMargin) ==
    LET c == Cropped(imageFile, leftMargin, topMargin, rightMargin, bottomMargin)
    IN  Savable(c.img) /\ SplitOk(c)

\* CropImageFile: the directory after the call; a save that raises ends the
\* call and leaves what was saved before it
CropImageFile(dir, imageFile, leftMargin, topMargin, rightMargin, bottomMargin) ==
    LET c == Cropped(imageFile, leftMargin, topMargin, rightMargin, bottomMargin)
    IN  IF ~Savable(c.img) THEN dir
        ELSE IF ~SplitOk(c) THEN Save(dir, c)
        ELSE SplitCroppedIntoA4Files(Save(dir, c), c)

(* ------------------------------ the files ------------------------------ *)
Root == <<"root">>
A4FolderOf(dir) == Append(dir, "_A4_")

\* the name of the output folder (line 134) and the processed-marker (line 224)
MarkerWithTrailingUnderscore == <<"_", "A", "4", "_">>
Marker == <<"_", "A", "4">>

Pdf(dir, stem, pages) == [dir |-> dir, stem |-> stem, pages |-> pages]
PdfName(f) == f.stem \o <<".", "p", "d", "f">>

\* stems of the PDFs the root directory starts with: two sources, and one
\* file that carries the marker of an earlier run
StemA == <<"a">>
StemK == <<"k">>
StemMarked == <<"b", "_", "A", "4">>

\* the values a caller passes
PdfDirs == {Root, A4FolderOf(Root)}
MarginChoices == {DefaultCropMargins, Margins(3, 1, 2, 2)}
Patterns == {<<>>, <<"k">>}

NoPdf == [dir |-> <<>>, stem |-> <<>>, pages |-> 0]
NoArgs == [pdfDir |-> <<>>, cropMargins |-> DefaultCropMargins,
           include |-> <<>>, exclude |-> <<>>,
           reverseLeftAndRight |-> TRUE, showPager |-> TRUE]

VARIABLES
    pdfs,       \* the *.pdf files on disk
    dirs,       \* the directories holding PDFs that exist
    temp,       \* per-document image directories: <<dir, stem>> -> set of PNGs
    pc,         \* where ProcessPDFFiles is
    args,       \* the arguments of the running call
    todo,       \* files the loop of line 222 has not reached
    status,     \* what became of each discovered file
    count,      \* line 203
    ignore,     \* line 204
    cur,        \* pdfFilename of the iteration in progress
    pending,    \* raster pages the loop of line 253 has not reached
    cropCalls,  \* arguments of the CropImageFile calls of this iteration
    merged,     \* pages MergeImagesAsPDFFile appended, in order
    generated,  \* the PDFs MergeImagesAsPDFFile has written so far
    gin,        \* geometry model: the image and margins drawn
    gdir        \* geometry model: the directory of the image

vars == <<pdfs, dirs, temp, pc, args, todo, status, count, ignore, cur,
          pending, cropCalls, merged, generated, gin, gdir>>
fsVars == <<pdfs, dirs, temp, generated>>
runVars == <<pc, args, todo, status, count, ignore, cur, pending, cropCalls, merged>>
geomVars == <<gin, gdir>>

\* the function with no arguments: no directory exists, no file is known
NoDirs == [k \in {} |-> {}]

TempKey(f) == <<f.dir, f.stem>>
RawPages(n) == {Png(Format02d(i), SufRaw, NewImage(PageWidth, PageHeight), <<>>) : i \in 1..n}

RECURSIVE SaveAll(_, _)
SaveAll(dir, files) ==
    IF files = {} THEN dir
    ELSE LET f == CHOOSE x \in files : TRUE
         IN  SaveAll(Save(dir, f), files \ {f})

\* The root directory holds a.pdf (any page count), k.pdf (one page) and
\* b_A4.pdf.  The image directory of k.pdf either does not exist or is what an
\* interrupted run over a longer k.pdf left behind: its raster pages.
Init ==
    /\ \E n \in 1..MaxPages :
          pdfs = {Pdf(Root, StemA, n), Pdf(Root, StemK, 1), Pdf(Root, StemMarked, 1)}
    /\ dirs = {Root}
    /\ generated = {}
    /\ \E stale \in BOOLEAN :
          temp = IF stale THEN (<<Root, StemK>> :> RawPages(MaxPages)) ELSE NoDirs
    /\ pc = "idle"
    /\ args = NoArgs
    /\ todo = {}
    /\ status = NoDirs
    /\ count = 0
    /\ ignore = 0
    /\ cur = NoPdf
    /\ pending = {}
    /\ cropCalls = {}
    /\ merged = <<>>
    /\ gin = <<>>
    /\ gdir = {}

(* --------------------------- ProcessPDFFiles --------------------------- *)
\* lines 186-220: the call, up to the loop
StartRun ==
    /\ pc \in {"idle", "nodir", "done", "aborted"}
    /\ \E pdfDir \in PdfDirs, cropMargins \in MarginChoices,
          inc \in Patterns, exc \in Patterns,
          reverse \in BOOLEAN, showPager \in BOOLEAN :
          /\ args' = [pdfDir |-> pdfDir, cropMargins |-> cropMargins,
                      include |-> inc, exclude |-> exc,
                      reverseLeftAndRight |-> reverse, showPager |-> showPager]
          /\ IF pdfDir \notin dirs
             THEN /\ pc' = "nodir"
                  /\ todo' = {}
             ELSE /\ pc' = "loop"
                  /\ todo' = {f \in pdfs : f.dir = pdfDir}
          /\ status' = [f \in todo' |-> "Discovered"]
    /\ count' = 0
    /\ ignore' = 0
    /\ cur' = NoPdf
    /\ pending' = {}
    /\ cropCalls' = {}
    /\ merged' = <<>>
    /\ UNCHANGED <<fsVars, geomVars>>

\* the skip test looking for the folder name _A4_ instead of the marker
IsProcessedFolderName(f) == Contains(MarkerWithTrailingUnderscore, f.stem)
\* line 224
IsProcessed(f) == Contains(Marker, f.stem)

\* the include test with its negation lost
NotIncludedInverted(f) == args.include # <<>> /\ Contains(args.include, PdfName(f))
\* line 229
NotIncluded(f) == args.include # <<>> /\ ~Contains(args.include, PdfName(f))

\* line 236
Excluded(f) == args.exclude # <<>> /\ Contains(args.exclude, PdfName(f))

\* lines 224-225
SkipProcessed ==
    /\ pc = "loop"
    /\ \E f \in todo :
          /\ IsProcessed(f)
          /\ todo' = todo \ {f}
          /\ status' = [status EXCEPT ![f] = "Skipped"]
    /\ UNCHANGED <<pc, args, count, ignore, cur, pending, cropCalls, merged,
                   fsVars, geomVars>>

\* lines 229-234
IgnoreNotIncluded ==
    /\ pc = "loop"
    /\ \E f \in todo :
          /\ ~IsProcessed(f)
          /\ NotIncluded(f)
          /\ todo' = todo \ {f}
          /\ status' = [status EXCEPT ![f] = "Filtered"]
    /\ ignore' = ignore + 1
    /\ UNCHANGED <<pc, args, count, cur, pending, cropCalls, merged,
                   fsVars, geomVars>>

\* lines 236-241
IgnoreExcluded ==
    /\ pc = "loop"
    /\ \E f \in todo :
          /\ ~IsProcessed(f)
          /\ ~NotIncluded(f)
          /\ Excluded(f)
          /\ todo' = todo \ {f}
          /\ status' = [status EXCEPT ![f] = "Filtered"]
    /\ ignore' = ignore + 1
    /\ UNCHANGED <<pc, args, count, cur, pending, cropCalls, merged,
                   fsVars, geomVars>>

\* lines 243-244
BeginFile ==
    /\ pc = "loop"
    /\ \E f \in todo :
          /\ ~IsProcessed(f)
          /\ ~NotIncluded(f)
          /\ ~Excluded(f)
          /\ todo' = todo \ {f}
          /\ status' = [status EXCEPT ![f] = "Processing"]
          /\ cur' = f
    /\ count' = count + 1
    /\ pc' = "extract"
    /\ UNCHANGED <<args, ignore, pending, cropCalls, merged, fsVars, geomVars>>

\* "_cropped" in imageFilename.stem, line 255
IsCropped(g) == \E i \in 1..Len(g.suf) : g.suf[i] = "_cropped"

\* outputDir.mkdir(exist_ok=True), line 35: what is there stays
Mkdir(t, key) == IF key \in DOMAIN t THEN t ELSE t @@ (key :> {})

\* lines 247 and 32-44, the rasterizer returning the pages
ExtractImagesFromPdfFile ==
    /\ pc = "extract"
    /\ temp' = [Mkdir(temp, TempKey(cur)) EXCEPT
                   ![TempKey(cur)] = SaveAll(@, RawPages(cur.pages))]
    /\ pending' = {g \in temp'[TempKey(cur)] : ~IsCropped(g)}
    /\ pc' = "crop"
    /\ UNCHANGED <<pdfs, dirs, generated, args, todo, status, count, ignore, cur,
                   cropCalls, merged, geomVars>>

\* lines 247 and 35-37, convert_from_path raising: nothing catches it
ExtractRaises ==
    /\ pc = "extract"
    /\ temp' = Mkdir(temp, TempKey(cur))
    /\ status' = [status EXCEPT ![cur] = "Failed"]
    /\ pc' = "aborted"
    /\ UNCHANGED <<pdfs, dirs, generated, args, todo, count, ignore, cur, pending,
                   cropCalls, merged, geomVars>>

\* the page loop without the swap for even pages
MarginsNeverSwapped(imageFile, reverseLeftAndRight, cropMargins) ==
    IF reverseLeftAndRight THEN cropMargins ELSE DefaultCropMargins

\* lines 259-270: the margins ProcessPDFFiles hands to CropImageFile for a
\* raster page; without reversal it passes none, and CropImageFile's
\* defaults (line 49) apply
MarginsForPage(imageFile, reverseLeftAndRight, cropMargins) ==
    IF reverseLeftAndRight
    THEN LET number == ParseInt(imageFile.num)
         IN  IF number % 2 = 1
             THEN cropMargins
             ELSE Margins(cropMargins.right, cropMargins.top,
                          cropMargins.left, cropMargins.bottom)
    ELSE DefaultCropMargins

\* lines 253-275: one iteration of the page loop
CropPage ==
    /\ pc = "crop"
    /\ \E g \in pending :
          LET m == MarginsForPage(g, args.reverseLeftAndRight, args.cropMargins)
          IN  /\ temp' = [temp EXCEPT ![TempKey(cur)] =
                             CropImageFile(@, g, m.left, m.top, m.right, m.bottom)]
              /\ cropCalls' = cropCalls \cup {[num |-> g.num, margins |-> m]}
              /\ IF CropOk(g, m.left, m.top, m.right, m.bottom)
                 THEN /\ pending' = pending \ {g}
                      /\ UNCHANGED <<pc, status>>
                 ELSE /\ pc' = "aborted"
                      /\ status' = [status EXCEPT ![cur] = "Failed"]
                      /\ UNCHANGED pending
    /\ UNCHANGED <<pdfs, dirs, generated, args, todo, count, ignore, cur, merged,
                   geomVars>>

\* every order a directory listing can return the files in
RECURSIVE Listings(_)
Listings(files) ==
    IF files = {} THEN {<<>>}
    ELSE UNION {{<<f>> \o rest : rest \in Listings(files \ {f})} : f \in files}

\* imageDir.glob("*_cropped_A4_*.png"), line 139
IsA4Artifact(g) ==
    \E i \in 1..(Len(g.suf) - 1) :
        g.suf[i] = "_cropped" /\ g.suf[i + 1] \in {"_A4_01", "_A4_02"}

\* line 136
OutputStem(imageDirStem) == imageDirStem \o <<"_", "A", "4">>

\* AddPageNumberIntoImage: the caption drawn on the image, saved in place
AddPageNumberIntoImage(g, totalPages, pageNumber) ==
    [g EXCEPT !.cap = <<pageNumber, totalPages>>]

\* lines 277 and 133-160, once the page loop is over
MergeImagesAsPDFFile ==
    /\ pc = "crop"
    /\ pending = {}
    /\ LET imageDir == temp[TempKey(cur)]
           A4Folder == A4FolderOf(cur.dir)
           pdfStem == OutputStem(cur.stem)
       IN  \E images \in Listings({g \in imageDir : IsA4Artifact(g)}) :
              LET totalPages == Len(images)
                  page(k) == IF args.showPager
                             THEN AddPageNumberIntoImage(images[k], totalPages, k)
                             ELSE images[k]
              IN  /\ merged' = [k \in 1..totalPages |->
                                   [file |-> page(k), pageNumber |-> k,
                                    totalPages |-> totalPages]]
                  /\ temp' = [temp EXCEPT ![TempKey(cur)] =
                                 SaveAll(@, {page(k) : k \in 1..totalPages})]
                  /\ dirs' = dirs \cup {A4Folder}
                  /\ pdfs' = {f \in pdfs : ~(f.dir = A4Folder /\ f.stem = pdfStem)}
                                \cup {Pdf(A4Folder, pdfStem, totalPages)}
                  /\ generated' = generated \cup {<<A4Folder, pdfStem>>}
    /\ pc' = "cleanup"
    /\ UNCHANGED <<args, todo, status, count, ignore, cur, pending, cropCalls, geomVars>>

\* a cleanup that deletes nothing
RmtreeKeeps(t, key) == t
\* shutil.rmtree(outputDir), line 280
Rmtree(t, key) == [k \in DOMAIN t \ {key} |-> t[k]]

\* lines 278-284: the end of the iteration
Cleanup ==
    /\ pc = "cleanup"
    /\ temp' = IF ~Debug_Mode THEN Rmtree(temp, TempKey(cur)) ELSE temp
    /\ status' = [status EXCEPT ![cur] = "Completed"]
    /\ cur' = NoPdf
    /\ cropCalls' = {}
    /\ merged' = <<>>
    /\ pc' = "loop"
    /\ UNCHANGED <<pdfs, dirs, generated, args, todo, count, ignore, pending,
                   geomVars>>

\* lines 285-288: the loop is over, the counts are reported
Finish ==
    /\ pc = "loop"
    /\ todo = {}
    /\ pc' = "done"
    /\ UNCHANGED <<args, todo, status, count, ignore, cur, pending, cropCalls,
                   merged, fsVars, geomVars>>

Next ==
    \/ StartRun
    \/ SkipProcessed
    \/ IgnoreNotIncluded
    \/ IgnoreExcluded
    \/ BeginFile
    \/ ExtractImagesFromPdfFile
    \/ ExtractRaises
    \/ CropPage
    \/ MergeImagesAsPDFFile
    \/ Cleanup
    \/ Finish

Spec == Init /\ [][Next]_vars

(* -------------------------- the geometry model -------------------------- *)
\* One raster page of any size, taken through the body of the page loop, or
\* handed to CropImageFile or SplitCroppedIntoA4Files by a caller.
Sides == 1..MaxSide
MarginValues == 0..MaxMargin

\* the page and the margins of end-to-end scenario 3
ScenarioPage == NewImage(3000, 4000)
ScenarioMargins == Margins(160, 160, 160, 160)

GeomInputs ==
    {[img |-> NewImage(w, h), margins |-> Margins(l, t, r, b)] :
        w \in Sides, h \in Sides,
        l \in MarginValues, t \in MarginValues,
        r \in MarginValues, b \in MarginValues}
    \cup {[img |-> ScenarioPage, margins |-> ScenarioMargins]}

InitGeom ==
    /\ pdfs = {}
    /\ dirs = {}
    /\ generated = {}
    /\ temp = NoDirs
    /\ pc = "idle"
    /\ args = NoArgs
    /\ todo = {}
    /\ status = NoDirs
    /\ count = 0
    /\ ignore = 0
    /\ cur = NoPdf
    /\ pending = {}
    /\ cropCalls = {}
    /\ merged = <<>>
    /\ \E in \in GeomInputs, n \in 1..MaxPages, reverse \in BOOLEAN :
          /\ gin = [file |-> Png(Format02d(n), SufRaw, in.img, <<>>),
                    margins |-> in.margins,
                    reverseLeftAndRight |-> reverse,
                    op |-> "none",
                    passed |-> DefaultCropMargins]
          /\ gdir = {gin.file}

\* the call of CropImageFile and what it leaves in the directory
GeomCall(m, op) ==
    /\ gdir' = CropImageFile(gdir, gin.file, m.left, m.top, m.right, m.bottom)
    /\ gin' = [gin EXCEPT
                  !.op = IF CropOk(gin.file, m.left, m.top, m.right, m.bottom)
                         THEN op ELSE "crop raised",
                  !.passed = m]

\* CropImageFile(imageFilename, left, top, right, bottom), lines 48-73
GeomCropImageFile ==
    /\ gin.op = "none"
    /\ GeomCall(gin.margins, "CropImageFile")
    /\ UNCHANGED <<fsVars, runVars>>

\* the body of the page loop, lines 258-270
GeomCropPage ==
    /\ gin.op = "none"
    /\ GeomCall(MarginsForPage(gin.file, gin.reverseLeftAndRight, gin.margins),
                "CropPage")
    /\ UNCHANGED <<fsVars, runVars>>

\* SplitCroppedIntoA4Files(imageFilename), lines 77-94
GeomSplit ==
    /\ gin.op = "none"
    /\ IF SplitOk(gin.file)
       THEN /\ gdir' = SplitCroppedIntoA4Files(gdir, gin.file)
            /\ gin' = [gin EXCEPT !.op = "Split"]
       ELSE /\ gdir' = gdir
            /\ gin' = [gin EXCEPT !.op = "split raised"]
    /\ UNCHANGED <<fsVars, runVars>>

NextGeom ==
    \/ GeomCropImageFile
    \/ GeomCropPage
    \/ GeomSplit

SpecGeom == InitGeom /\ [][NextGeom]_vars

(* ----------------------------- properties ------------------------------ *)
PageNumberOf(g) == ParseInt(g.num)
Swapped(m) == Margins(m.right, m.top, m.left, m.bottom)
FileOf(dir, num, suf) == {g \in dir : g.num = num /\ g.suf = suf}
CurDir == temp[TempKey(cur)]
InIteration == pc \in {"crop", "cleanup"} \/ (pc = "aborted" /\ cur # NoPdf)

\* the cropped file of a call shows the box that was cut out of the page
CutWith(dir, num, m) ==
    \E c \in FileOf(dir, num, SufCropped) :
        /\ c.img.ox = m.left
        /\ c.img.oy = m.top
        /\ c.img.w = PageWidth - m.left - m.right
        /\ c.img.h = PageHeight - m.top - m.bottom

\* C1: with parity reversal enabled, every raster page with an odd page number
\* is cropped with the margins as supplied and every page with an even page
\* number with left and right swapped; top and bottom are those supplied for
\* every page.
C1_ParityMargins ==
    (InIteration /\ args.reverseLeftAndRight) =>
        \A c \in cropCalls :
            LET number == ParseInt(c.num)
                expected == IF number % 2 = 1 THEN args.cropMargins
                            ELSE Swapped(args.cropMargins)
            IN  /\ c.margins = expected
                /\ c.margins.top = args.cropMargins.top
                /\ c.margins.bottom = args.cropMargins.bottom
                /\ CutWith(CurDir, c.num, expected)

C1_Witness ==
    /\ pc = "cleanup"
    /\ args.reverseLeftAndRight
    /\ args.cropMargins.left # args.cropMargins.right
    /\ \E c \in cropCalls : ParseInt(c.num) % 2 = 1
    /\ \E c \in cropCalls : ParseInt(c.num) % 2 = 0 /\ c.margins = Swapped(args.cropMargins)

\* C2: with parity reversal disabled, every raster page is cropped with the
\* caller-supplied cropMargins, unswapped (all zero only when none were
\* supplied).
C2_UniformSuppliedMargins ==
    (InIteration /\ ~args.reverseLeftAndRight) =>
        \A c \in cropCalls :
            c.margins = args.cropMargins /\ CutWith(CurDir, c.num, args.cropMargins)

\* column of a split artifact: 1 for _A4_01, 2 for _A4_02
ColumnOf(g) == IF g.suf[Len(g.suf)] = "_A4_01" THEN 1 ELSE 2
NumericallyBefore(g, h) ==
    \/ PageNumberOf(g) < PageNumberOf(h)
    \/ PageNumberOf(g) = PageNumberOf(h) /\ ColumnOf(g) < ColumnOf(h)
RankOf(g, files) == 1 + Cardinality({h \in files : NumericallyBefore(h, g)})
MergedFiles == {merged[k].file : k \in 1..Len(merged)}

\* C3: whatever order the directory listing returns the split artifacts in,
\* the page counter assigned to an artifact equals its rank in numeric
\* (page number, then column) order.
C3_NumericOrder ==
    pc = "cleanup" =>
        \A k \in 1..Len(merged) :
            merged[k].pageNumber = RankOf(merged[k].file, MergedFiles)

Passes(f) == ~IsProcessed(f) /\ ~NotIncluded(f) /\ ~Excluded(f)
BatchEnded == pc \in {"done", "aborted"}

\* C4: a failure while processing one file does not abort the batch: when the
\* batch has ended, every discovered file that passes the skip and filter
\* rules has been processed (completed, or recorded as failed).
C4_FailureDoesNotAbort ==
    BatchEnded =>
        \A f \in DOMAIN status :
            Passes(f) => status[f] \in {"Completed", "Failed"}

Visited == {f \in DOMAIN status : status[f] # "Discovered"}
TakenAsInput == {f \in Visited : status[f] # "Skipped"}

\* C5: every generated PDF carries the _A4 marker in its name, and every
\* discovered file whose name contains _A4 is skipped before it is filtered,
\* rasterized or counted, so no run takes a generated PDF as input.
C5_GeneratedNeverInput ==
    /\ \A g \in generated : Contains(Marker, g[2])
    /\ \A f \in DOMAIN status :
          Contains(Marker, PdfName(f)) => status[f] \in {"Discovered", "Skipped"}
    /\ \A f \in TakenAsInput : TempKey(f) \notin generated
    /\ cur # NoPdf => TempKey(cur) \notin generated
    /\ pc # "idle" => count + ignore = Cardinality(TakenAsInput)

C5_Witness ==
    /\ pc = "done"
    /\ args.pdfDir = A4FolderOf(Root)
    /\ \E f \in DOMAIN status : TempKey(f) \in generated /\ status[f] = "Skipped"
    /\ Cardinality(generated) = 2

IncludeOk(f) == args.include = <<>> \/ Contains(args.include, PdfName(f))
ExcludeOk(f) == args.exclude = <<>> \/ ~Contains(args.exclude, PdfName(f))
Processed == {f \in DOMAIN status : status[f] \in {"Processing", "Completed", "Failed"}}
Ignored == {f \in DOMAIN status : status[f] = "Filtered"}
NonSkipped == {f \in DOMAIN status : ~Contains(Marker, PdfName(f))}

\* C6: a discovered PDF that the _A4 rule does not skip is processed if and
\* only if the include pattern is unset or found in its name and the exclude
\* pattern is unset or not found in its name; otherwise it is counted as
\* ignored, once, and never rasterized; when the loop is over, processed
\* count plus ignored count is the number of non-skipped discovered files.
C6_FilterRule ==
    /\ \A f \in Visited \cap NonSkipped :
          /\ f \in Processed <=> (IncludeOk(f) /\ ExcludeOk(f))
          /\ f \in Ignored <=> ~(IncludeOk(f) /\ ExcludeOk(f))
    /\ \A f \in Ignored : TempKey(f) # TempKey(cur)
    /\ pc # "idle" => count = Cardinality(Processed) /\ ignore = Cardinality(Ignored)
    /\ pc = "done" => count + ignore = Cardinality(NonSkipped)

C6_Witness ==
    /\ pc = "done"
    /\ args.include = <<"k">>
    /\ count = 1
    /\ ignore = 1
    /\ \E f \in Ignored : f.stem = StemA
    /\ \E f \in Processed : f.stem = StemK

\* C7: for every processed source PDF with N pages, whatever the filesystem
\* held when the run began, the assembled PDF has 2N pages, totalPages is 2N,
\* and with captioning enabled the k-th page appended is captioned k of 2N.
C7_TwoPagesPerSourcePage ==
    pc = "cleanup" =>
        /\ Len(merged) = 2 * cur.pages
        /\ Pdf(A4FolderOf(cur.dir), OutputStem(cur.stem), 2 * cur.pages) \in pdfs
        /\ \A k \in 1..Len(merged) :
              /\ merged[k].totalPages = 2 * cur.pages
              /\ args.showPager => merged[k].file.cap = <<k, 2 * cur.pages>>

\* the halves SplitCroppedIntoA4Files saved for the image file p
LeftHalves(dir, p) == FileOf(dir, p.num, Append(p.suf, "_A4_01"))
RightHalves(dir, p) == FileOf(dir, p.num, Append(p.suf, "_A4_02"))

\* C8: for an image of width W and height H and margins with left+right < W
\* and top+bottom < H, CropImageFile writes a cropped image of width
\* W-left-right and height H-top-bottom; margins of 160 on all sides turn
\* 3000x4000 into 2680x3680.
C8_CropSize ==
    LET m == gin.passed
        W == gin.file.img.w
        H == gin.file.img.h
    IN  (/\ gin.op \in {"CropImageFile", "CropPage", "crop raised"}
         /\ m.left + m.right < W
         /\ m.top + m.bottom < H)
        => \E c \in FileOf(gdir, gin.file.num, SufCropped) :
              /\ c.img.w = W - m.left - m.right
              /\ c.img.h = H - m.top - m.bottom
              /\ (gin.file.img = ScenarioPage /\ m = ScenarioMargins)
                    => (c.img.w = 2680 /\ c.img.h = 3680)

C8_Witness ==
    /\ gin.op = "CropImageFile"
    /\ gin.file.img = ScenarioPage
    /\ gin.passed = ScenarioMargins
    /\ \E c \in FileOf(gdir, gin.file.num, SufCropped) :
          c.img.w = 2680 /\ c.img.h = 3680

OutputOf(f) == <<A4FolderOf(f.dir), OutputStem(f.stem)>>
OutputWritten(f) == \E o \in pdfs : <<o.dir, o.stem>> = OutputOf(f)
AllRasterized(f, dir) == \A g \in RawPages(f.pages) : g \in dir
AllSplit(dir) ==
    \A g \in dir : ~IsCropped(g) =>
        \E c \in FileOf(dir, g.num, SufCropped) :
            LeftHalves(dir, c) # {} /\ RightHalves(dir, c) # {}

\* what holds of every state
StagesState ==
    /\ pc \in {"crop", "cleanup"} => TempKey(cur) \in DOMAIN temp
    /\ pc = "crop" => AllRasterized(cur, CurDir)
    /\ pc = "cleanup" =>
          /\ AllSplit(CurDir)
          /\ OutputWritten(cur)
          /\ {g \in CurDir : IsA4Artifact(g)} = MergedFiles
    /\ \A f \in DOMAIN status :
          status[f] = "Completed" =>
              /\ OutputWritten(f)
              /\ ~Debug_Mode => TempKey(f) \notin DOMAIN temp

\* what holds of every step
StagesStep ==
    /\ cropCalls' \notin {cropCalls, {}} =>
          /\ pc = "crop"
          /\ AllRasterized(cur, CurDir)
    /\ merged' \notin {merged, <<>>} =>
          /\ pc = "crop"
          /\ AllRasterized(cur, CurDir)
          /\ AllSplit(CurDir)
          /\ TempKey(cur) \in DOMAIN temp'
          /\ pc' = "cleanup"
    /\ \A key \in DOMAIN temp :
          key \notin DOMAIN temp' =>
              /\ pc = "cleanup"
              /\ key = TempKey(cur)
              /\ OutputWritten(cur)

\* C10: for each file the stages come in order: all pages are rasterized,
\* then every raster page is cropped and split (both halves of every page
\* exist before assembly starts), then the output PDF is assembled and
\* written, then the temp directory is deleted; with the debug flag off the
\* temp directory of a completed file no longer exists, and it is never
\* deleted before the output PDF is written.
C10_StageOrder == []StagesState /\ [][StagesStep]_vars

C10_Witness ==
    /\ pc = "done"
    /\ ~Debug_Mode
    /\ \E f \in DOMAIN status :
          /\ status[f] = "Completed"
          /\ f.pages = 2
          /\ OutputWritten(f)
          /\ TempKey(f) \notin DOMAIN temp

====
